---- MODULE Spec2Model ----
(***************************************************************************)
(* The capture / dispatch / response pipeline of AIAssistantApp            *)
(* (src/main.py).  Threads: the Qt main thread (event loop), the hotkey    *)
(* listener thread, the threading.Thread callbacks the hotkey handlers     *)
(* spawn, and the API worker threads.  Queued signal emissions and         *)
(* QTimer.singleShot(0, ...) are events posted to the main thread's FIFO   *)
(* event queue.                                                            *)
(***************************************************************************)
EXTENDS Integers, Sequences, FiniteSets

\* ---------------------------------------------------------------- bounds
\* Total number of hotkey presses in a run.
MaxPresses == 2

\* Number of consecutive saves into the history in SpecHistory.
MaxSaves == 4

\* Images saved in SpecHistory.
HistImages == {1, 2, 3}

\* Largest number of answered requests in SpecResponse.
MaxResponses == 2

\* Largest number of items of a response stream in SpecStream.
MaxStreamLen == 4

\* Texts of the chunks of a response stream; a text is a sequence of tokens
\* (here characters).
ChunkTexts == { <<"a", "b">>, <<"c", "d">>, <<"e", "f">> }

\* ------------------------------------------------------------- constants
\* ai_assistant.utils.constants.MAX_SCREENSHOT_HISTORY (H_max of the spec).
MAX_SCREENSHOT_HISTORY == 2

\* SCREENSHOT_MODE.get("use_selector", True)
use_selector == TRUE

\* config "prompts": the configured prompts, each identified by its name.
Prompts == <<"p1", "p2">>

\* The value of a null prompt (Python None).
None == "None"

\* Providers AIServiceFactory.get_service knows.
RegisteredProviders == {"Gemini", "GPT"}

\* Texts a provider's analyze_images can return (<<>> is the empty result);
\* a text is a sequence of tokens.
ProviderTexts == { <<>>, <<"md">>, <<"ERR:", "md">> }

\* The literal "错误:" handle_api_response tests for.
ErrPrefix == <<"ERR:">>

\* "API调用失败，未获得响应"
NoResponseText == <<"API_NO_RESPONSE">>

\* Messages of the exceptions get_service and analyze_images raise.
UnknownProviderError == <<"unknown_provider">>
ProviderError == <<"boom">>

\* ----------------------------------------------------------------- state
VARIABLES
    screenshot_history,     \* self.screenshot_history: sequence of images
    screenshot_selector,    \* self.screenshot_selector: selector id, 0 = None
    pending_prompt,         \* self.pending_prompt: a prompt or None
    current_prompt_index,   \* self.current_prompt_index
    cfg_index,              \* config "current_prompt_index"
    provider,               \* config "provider"
    selectors,              \* live ScreenshotSelector objects that can still emit
    mainQueue,              \* events posted to the main thread, FIFO
    cbThreads,              \* running hotkey callback threads
    workers,                \* API requests, by dispatch order
    crashed,                \* an exception escaped a main-thread slot
    nPress, nextImg, nextSel, \* counters: presses, captured images, selectors
    appended,               \* images appended to the history since it was last emptied
    histThreads,            \* threads that have mutated screenshot_history
    pendThreads,            \* threads that have written pending_prompt
    uiThreads,              \* threads that have touched UI objects
    response_stream,        \* _handle_streaming_response: items still to come
    arrived,                \* items the stream has yielded so far
    full_response,          \* _handle_streaming_response: full_response
    overlay_chunks,         \* texts emitted through overlay.content_chunk
    finish_calls,           \* number of overlay.finish_streaming() calls
    completed,              \* arguments of the _process_complete_response calls
    fallback_rendered,      \* texts rendered by the except branch's fallback
    stream_pc,              \* "idle", "loop", "done" or "failed"
    clipboard,              \* texts passed to copy_to_clipboard, in order
    extractions,            \* number of extract_code_blocks calls
    register_results,       \* setup_hotkeys: what register_hotkey returns per binding
    attempted,              \* setup_hotkeys: bindings passed to register_hotkey
    bind_logs,              \* setup_hotkeys: bindings logged as bound
    setup_pc,               \* setup_hotkeys: "idle", "run" or "done"
    start_btn, stop_btn,    \* start_btn.isEnabled(), stop_btn.isEnabled()
    status,                 \* the text last passed to update_status
    overlay,                \* whether self.overlay has been created
    form,                   \* the settings widgets: checked radio and field texts
    saved,                  \* the configuration keys _apply_basic_settings writes
    prompts,                \* config "prompts" as PromptManagerWidget edits it
    combo_index,            \* prompts_combo.currentIndex()
    last_op                 \* the last operation of a page and its inputs

vars == << screenshot_history, screenshot_selector, pending_prompt,
           current_prompt_index, cfg_index, provider, selectors, mainQueue,
           cbThreads, workers, crashed, nPress, nextImg, nextSel, appended,
           histThreads, pendThreads, uiThreads,
           response_stream, arrived, full_response, overlay_chunks,
           finish_calls, completed, fallback_rendered, stream_pc,
           clipboard, extractions,
           register_results, attempted, bind_logs, setup_pc,
           start_btn, stop_btn, status, overlay, form, saved,
           prompts, combo_index, last_op >>

\* The state of the capture / dispatch / response pipeline.
appVars == << screenshot_history, screenshot_selector, pending_prompt,
              current_prompt_index, cfg_index, provider, selectors, mainQueue,
              cbThreads, workers, crashed, nPress, nextImg, nextSel, appended,
              histThreads, pendThreads, uiThreads >>

\* What handle_api_response's post-processing has done.
responseVars == << clipboard, extractions >>

\* The state of setup_hotkeys.
hotkeyVars == << register_results, attempted, bind_logs, setup_pc >>

\* The start / stop controls of the main window.
controlVars == << start_btn, stop_btn, status, overlay >>

\* The settings page and the configuration it saves.
settingsVars == << form, saved >>

\* The prompt manager.
promptVars == << prompts, combo_index, last_op >>

\* The state of the main window's pages.
panelVars == << controlVars, settingsVars, promptVars >>

\* The state of _handle_streaming_response.
streamVars == << response_stream, arrived, full_response, overlay_chunks,
                 finish_calls, completed, fallback_rendered, stream_pc >>

\* ------------------------------------------------------------ pure parts
Min(a, b) == IF a < b THEN a ELSE b

\* The last n elements of s.
LastN(s, n) == SubSeq(s, Len(s) - n + 1, Len(s))

\* str.startswith
StartsWith(s, p) == Len(s) >= Len(p) /\ SubSeq(s, 1, Len(p)) = p

\* An event posted to the main thread: a queued signal emission or a
\* zero-delay single-shot call.
Event(type, flag, req, text) ==
    [type |-> type, flag |-> flag, req |-> req, text |-> text]

\* Mutant of HistoryAfterSave: evicts only above the limit (> for >=).
HistoryAfterSave_LateEvict(h, png) ==
    IF Len(h) > MAX_SCREENSHOT_HISTORY THEN Append(Tail(h), png) ELSE Append(h, png)

\* Mutant of HistoryAfterSave: the image is not appended.
HistoryAfterSave_Dropped(h, png) ==
    IF Len(h) >= MAX_SCREENSHOT_HISTORY /\ Len(h) > 0 THEN Tail(h) ELSE h

\* save_screenshot_to_history: the history after png is saved.
HistoryAfterSave(h, png) ==
    IF Len(h) >= MAX_SCREENSHOT_HISTORY /\ Len(h) > 0
    THEN Append(Tail(h), png)
    ELSE IF Len(h) >= MAX_SCREENSHOT_HISTORY
         THEN h        \* pop(0) of an empty list raises; the except logs it
         ELSE Append(h, png)

\* Mutant of ExceptionResponse: the message is emitted without the "错误:" prefix.
ExceptionResponse_NoPrefix(e) == <<"API_EXC:">> \o e

\* f"错误: API调用异常: {e}"
ExceptionResponse(e) == <<"ERR:", "API_EXC:">> \o e

\* Mutant of WorkerResponses: nothing is emitted for an empty result (no else).
WorkerResponses_NoElse(out) ==
    IF out.kind = "exc" THEN << <<"ERR:", "API_EXC:">> \o out.text >>
    ELSE IF out.text # <<>> THEN << out.text >>
    ELSE << >>

\* _async_api_worker: the api_response_signal emissions for a provider
\* outcome out = [kind: "exc" | "ret", text].
WorkerResponses(out) ==
    IF out.kind = "exc" THEN << ExceptionResponse(out.text) >>
    ELSE IF out.text # <<>> THEN << out.text >>
    ELSE << NoResponseText >>

\* Mutant of IsErrorMessage: only the bare prefix counts as an error.
IsErrorMessage_Exact(response) == response = ErrPrefix

\* handle_api_response: response.startswith("错误:")
IsErrorMessage(response) == StartsWith(response, ErrPrefix)

\* Mutant of ClampedIndex: an index out of range becomes the last index.
ClampedIndex_Last(idx, n) == IF 0 <= idx /\ idx < n THEN idx ELSE n - 1

\* The index used when the prompts (n of them, n > 0) are read: idx, or 0
\* when idx is out of range.
ClampedIndex(idx, n) == IF 0 <= idx /\ idx < n THEN idx ELSE 0

\* Tokens that stand for the content of a fenced code block.
CodeTokens == {"code1", "code2"}

IsCodeToken(tok) == tok \in CodeTokens

\* extract_code_blocks(response): the code of the response's code blocks,
\* joined; empty when there is none.
extract_code_blocks(response) == SelectSeq(response, IsCodeToken)

\* Mutant of ClipboardAfter: a text equal to the one written last is not
\* written again.
ClipboardAfter_Dedup(clip, response) ==
    IF IsErrorMessage(response) \/ extract_code_blocks(response) = <<>>
    THEN clip
    ELSE IF clip # <<>> /\ clip[Len(clip)] = extract_code_blocks(response)
         THEN clip
         ELSE Append(clip, extract_code_blocks(response))

\* handle_api_response: the copy_to_clipboard calls after response is handled.
ClipboardAfter(clip, response) ==
    IF IsErrorMessage(response) THEN clip
    ELSE IF extract_code_blocks(response) # <<>>
         THEN Append(clip, extract_code_blocks(response))
         ELSE clip

\* handle_api_response: the number of extract_code_blocks calls after
\* response is handled.
ExtractionsAfter(n, response) ==
    IF IsErrorMessage(response) THEN n ELSE n + 1

\* The main thread's queue after a thread posts event e (Qt posts in FIFO order).
PostEvent(q, e) == Append(q, e)

\* All events of es posted in order.
RECURSIVE PostAll(_, _)
PostAll(q, es) ==
    IF es = <<>> THEN q ELSE PostAll(PostEvent(q, Head(es)), Tail(es))

\* Mutant of TryPosts: the cleanup is scheduled before the outcome is emitted.
TryPosts_CleanupFirst(r, out) ==
    << Event("cleanup", FALSE, r, <<>>) >>
    \o [i \in 1..Len(WorkerResponses(out)) |->
          Event("api_response", FALSE, r, WorkerResponses(out)[i])]

\* _async_api_worker, try / except: the events request r's worker posts for
\* provider outcome out.
TryPosts(r, out) ==
    LET rs == WorkerResponses(out)
    IN [i \in 1..Len(rs) |-> Event("api_response", FALSE, r, rs[i])]

\* _async_api_worker, finally: the events request r's worker posts.
FinallyPosts(r) == << Event("cleanup", FALSE, r, <<>>) >>

\* The number of events of the given type for request r in es.
RECURSIVE CountEvents(_, _, _)
CountEvents(es, type, r) ==
    IF es = <<>> THEN 0
    ELSE (IF Head(es).type = type /\ Head(es).req = r THEN 1 ELSE 0)
         + CountEvents(Tail(es), type, r)

\* The outcomes get_service(provider) + analyze_images can have.
ProviderOutcomes(p) ==
    IF p \notin RegisteredProviders
    THEN { [kind |-> "exc", text |-> UnknownProviderError] }
    ELSE { [kind |-> "exc", text |-> ProviderError] }
         \cup { [kind |-> "ret", text |-> t] : t \in ProviderTexts }

\* Mutant of AnalyzeCalls: a failed analyze_images call is tried once more.
AnalyzeCalls_Retry(p, out) ==
    IF p \notin RegisteredProviders THEN 0
    ELSE IF out.kind = "exc" THEN 2 ELSE 1

\* _async_api_worker: the number of service.analyze_images calls of a run
\* for provider p with outcome out: none when get_service raises, otherwise
\* the one call of the try block.
AnalyzeCalls(p, out) ==
    IF p \notin RegisteredProviders THEN 0 ELSE 1

\* ------------------------------------------------------- settings page
\* No provider radio is checked (provider = None in _read_basic_settings).
NoRadio == ""

\* str.strip() on the texts a field can hold: the empty text, a blank one,
\* a value, or a value typed with a leading blank.
Strip(text) ==
    IF text = " " THEN "" ELSE IF text = " h1" THEN "h1" ELSE text

\* NetworkUtils.validate_proxy_url: whether a non-empty proxy text is a
\* proxy URL.
validate_proxy_url(proxy) == proxy = "http://proxy"

\* _read_basic_settings: the snapshot of the settings widgets f.
read_basic_settings(f) ==
    [ provider |-> f.provider,
      proxy |-> Strip(f.proxy),
      gemini |-> [api_key |-> Strip(f.gemini.api_key),
                  base_url |-> Strip(f.gemini.base_url)],
      gpt |-> [api_key |-> Strip(f.gpt.api_key),
               base_url |-> Strip(f.gpt.base_url)] ]

\* _validate_basic_settings: whether the snapshot passes.
validate_basic_settings(settings) ==
    IF settings.provider = NoRadio THEN FALSE
    ELSE IF settings.provider = "Gemini"
            /\ (settings.gemini.api_key = "" \/ settings.gemini.base_url = "")
    THEN FALSE
    ELSE IF settings.provider = "GPT"
            /\ (settings.gpt.api_key = "" \/ settings.gpt.base_url = "")
    THEN FALSE
    ELSE IF settings.proxy # "" /\ ~validate_proxy_url(settings.proxy)
    THEN FALSE
    ELSE TRUE

\* save_basic_settings with the widgets f, the configured provider prov and
\* the other saved keys sv: the configuration afterwards
\* (_apply_basic_settings when the snapshot passes, nothing otherwise).
ConfigAfterSave(f, prov, sv) ==
    LET settings == read_basic_settings(f)
    IN IF settings.provider = NoRadio \/ ~validate_basic_settings(settings)
       THEN [provider |-> prov, saved |-> sv]
       ELSE [provider |-> settings.provider,
             saved |-> [proxy |-> settings.proxy, gemini |-> settings.gemini,
                        gpt |-> settings.gpt]]

\* Radio p becomes checked (by a click or by setChecked(True)) while the
\* widgets are f: nothing if it was checked already; otherwise its toggled
\* signal runs on_provider_radio_changed, which writes config "provider"
\* and then autosaves through handle_settings_change.
AfterRadioChecked(f, prov, sv, p) ==
    IF f.provider = p
    THEN [form |-> f, provider |-> prov, saved |-> sv]
    ELSE LET f2 == [f EXCEPT !.provider = p]
             c == ConfigAfterSave(f2, p, sv)
         IN [form |-> f2, provider |-> c.provider, saved |-> c.saved]

\* load_settings: the widgets showing configuration (prov, sv).
LoadedForm(prov, sv) ==
    [ provider |-> IF prov \in RegisteredProviders THEN prov ELSE NoRadio,
      proxy |-> sv.proxy, gemini |-> sv.gemini, gpt |-> sv.gpt ]

\* A configuration with both providers filled in and no proxy.
DefaultSaved ==
    [ proxy |-> "",
      gemini |-> [api_key |-> "k", base_url |-> "u"],
      gpt |-> [api_key |-> "k", base_url |-> "u"] ]

\* Mutant of ToggledProvider: an unknown provider is left as it is.
ToggledProvider_KeepsUnknown(p) ==
    IF p = "Gemini" THEN "GPT" ELSE IF p = "GPT" THEN "Gemini" ELSE p

\* handle_toggle_provider: new_provider for current_provider p.
ToggledProvider(p) == IF p = "Gemini" THEN "GPT" ELSE "Gemini"

\* ------------------------------------------------------------------ Init
InitApp ==
    /\ screenshot_history = <<>>
    /\ screenshot_selector = 0
    /\ pending_prompt = None
    /\ current_prompt_index \in {0, Len(Prompts)}
    /\ cfg_index = current_prompt_index
    /\ provider \in {"Gemini", "Bogus"}
    /\ selectors = {}
    /\ mainQueue = <<>>
    /\ cbThreads = {}
    /\ workers = <<>>
    /\ crashed = FALSE
    /\ nPress = 0 /\ nextImg = 1 /\ nextSel = 1
    /\ appended = <<>>
    /\ histThreads = {} /\ pendThreads = {} /\ uiThreads = {}

\* No streamed response is being handled.
InitNoStream ==
    /\ response_stream = <<>> /\ arrived = <<>>
    /\ full_response = <<>> /\ overlay_chunks = <<>>
    /\ finish_calls = 0
    /\ completed = <<>> /\ fallback_rendered = <<>>
    /\ stream_pc = "idle"

\* No response has been post-processed.
InitNoResponse == clipboard = <<>> /\ extractions = 0

\* The listener has not been started.
InitNoControl ==
    /\ start_btn = TRUE /\ stop_btn = FALSE
    /\ status = "not_started"
    /\ overlay = FALSE

\* The settings page shows a complete configuration.
InitNoSettings ==
    /\ saved = DefaultSaved
    /\ form = LoadedForm(provider, saved)

\* The prompt manager is not used.
InitNoPromptManager ==
    /\ prompts = <<>>
    /\ combo_index = -1
    /\ last_op = [op |-> "none", index |-> 0, how |-> "ok"]

InitNoPanel == InitNoControl /\ InitNoSettings /\ InitNoPromptManager

\* setup_hotkeys is not running.
InitNoSetup ==
    /\ register_results = <<>> /\ attempted = <<>> /\ bind_logs = <<>>
    /\ setup_pc = "idle"

Init == InitApp /\ InitNoStream /\ InitNoResponse /\ InitNoSetup /\ InitNoPanel

\* ------------------------------------------------- operations on the state
\* A fresh API request record (the arguments of _async_api_worker plus its
\* progress and what has happened to its outcome).
\* Mutant of NewWorker: the worker is given the provider the application
\* started with by default instead of the configured one.
NewWorker_DefaultProvider(imgs, prompt, prov) ==
    [ images |-> imgs, prompt |-> prompt, provider |-> "Gemini",
      pc |-> "run", out |-> [kind |-> "none", text |-> <<>>],
      calls |-> 0, emitted |-> 0, consumed |-> 0, cleaned |-> 0,
      render |-> "none", errlog |-> FALSE,
      afterFailure |-> \E r \in 1..Len(workers) :
                          workers[r].out.kind = "exc" /\ workers[r].consumed > 0 ]

NewWorker(imgs, prompt, prov) ==
    [ images |-> imgs, prompt |-> prompt, provider |-> prov,
      pc |-> "run", out |-> [kind |-> "none", text |-> <<>>],
      calls |-> 0, emitted |-> 0, consumed |-> 0, cleaned |-> 0,
      render |-> "none", errlog |-> FALSE,
      afterFailure |-> \E r \in 1..Len(workers) :
                          workers[r].out.kind = "exc" /\ workers[r].consumed > 0 ]

\* Mutant of process_prompt_with_screenshot: the new image is put in front
\* of the history.
process_prompt_with_screenshot_NewFirst(current_png, prompt) ==
    workers' = Append(workers,
                      NewWorker(<<current_png>> \o screenshot_history, prompt, provider))

\* process_prompt_with_screenshot + _start_async_api_request: history plus the
\* current image, the provider read from the configuration, a worker thread.
process_prompt_with_screenshot(current_png, prompt) ==
    workers' = Append(workers,
                      NewWorker(screenshot_history \o <<current_png>>, prompt, provider))

\* save_screenshot_to_history run by thread th.
save_screenshot_to_history(png, th) ==
    /\ screenshot_history' = HistoryAfterSave(screenshot_history, png)
    /\ appended' = Append(appended, png)
    /\ histThreads' = histThreads \cup {th}

\* The thread on which HotkeyHandler invokes a registered callback.
HotkeyCallbackThread == "listener"

CanPress == ~crashed /\ nPress < MaxPresses

\* ------------------------------------------- hotkey handlers (setup_hotkeys)
\* send_prompt_handler: a new thread running send_current_prompt.
send_prompt_handler ==
    /\ UNCHANGED << streamVars, hotkeyVars, responseVars, panelVars >>
    /\ CanPress
    /\ nPress' = nPress + 1
    /\ cbThreads' = cbThreads \cup {[id |-> nPress + 1, kind |-> "send", pc |-> "start"]}
    /\ UNCHANGED << screenshot_history, screenshot_selector, pending_prompt,
                    current_prompt_index, cfg_index, provider, selectors, mainQueue,
                    workers, crashed, nextImg, nextSel, appended,
                    histThreads, pendThreads, uiThreads >>

\* screenshot_handler: a new thread running capture_screenshot_only.
screenshot_handler ==
    /\ UNCHANGED << streamVars, hotkeyVars, responseVars, panelVars >>
    /\ CanPress
    /\ nPress' = nPress + 1
    /\ cbThreads' = cbThreads \cup {[id |-> nPress + 1, kind |-> "only", pc |-> "start"]}
    /\ UNCHANGED << screenshot_history, screenshot_selector, pending_prompt,
                    current_prompt_index, cfg_index, provider, selectors, mainQueue,
                    workers, crashed, nextImg, nextSel, appended,
                    histThreads, pendThreads, uiThreads >>

\* clear_handler: a new thread running clear_screenshot_history.
clear_handler ==
    /\ UNCHANGED << streamVars, hotkeyVars, responseVars, panelVars >>
    /\ CanPress
    /\ nPress' = nPress + 1
    /\ cbThreads' = cbThreads \cup {[id |-> nPress + 1, kind |-> "clear", pc |-> "start"]}
    /\ UNCHANGED << screenshot_history, screenshot_selector, pending_prompt,
                    current_prompt_index, cfg_index, provider, selectors, mainQueue,
                    workers, crashed, nextImg, nextSel, appended,
                    histThreads, pendThreads, uiThreads >>

\* toggle_handler: self.toggle_overlay_signal.emit()
toggle_handler ==
    /\ UNCHANGED << streamVars, hotkeyVars, responseVars, panelVars >>
    /\ CanPress
    /\ nPress' = nPress + 1
    /\ mainQueue' = PostEvent(mainQueue, Event("toggle_overlay", FALSE, 0, <<>>))
    /\ UNCHANGED << screenshot_history, screenshot_selector, pending_prompt,
                    current_prompt_index, cfg_index, provider, selectors, cbThreads,
                    workers, crashed, nextImg, nextSel, appended,
                    histThreads, pendThreads, uiThreads >>

\* switch_provider_handler: self.toggle_provider_signal.emit()
switch_provider_handler ==
    /\ UNCHANGED << streamVars, hotkeyVars, responseVars, panelVars >>
    /\ CanPress
    /\ nPress' = nPress + 1
    /\ mainQueue' = PostEvent(mainQueue, Event("toggle_provider", FALSE, 0, <<>>))
    /\ UNCHANGED << screenshot_history, screenshot_selector, pending_prompt,
                    current_prompt_index, cfg_index, provider, selectors, cbThreads,
                    workers, crashed, nextImg, nextSel, appended,
                    histThreads, pendThreads, uiThreads >>

\* Mutant of switch_prompt: an index out of range selects the first prompt.
switch_prompt_Clamping(index, th) ==
    /\ current_prompt_index' = ClampedIndex(index, Len(Prompts))
    /\ cfg_index' = ClampedIndex(index, Len(Prompts))
    /\ uiThreads' = uiThreads \cup {th}

\* switch_prompt(index), with update_current_prompt_display and the toast,
\* run by thread th.
switch_prompt(index, th) ==
    /\ IF 0 <= index /\ index < Len(Prompts)
       THEN /\ current_prompt_index' = index
            /\ cfg_index' = index
            /\ uiThreads' = uiThreads \cup {th}
       ELSE UNCHANGED << current_prompt_index, cfg_index, uiThreads >>

\* handler = lambda idx=i: self.switch_prompt(idx), for i < min(len(prompts), 9)
switch_prompt_handler ==
    /\ UNCHANGED << streamVars, hotkeyVars, responseVars, panelVars >>
    /\ CanPress
    /\ nPress' = nPress + 1
    /\ \E idx \in 0..(Min(Len(Prompts), 9) - 1) : switch_prompt(idx, HotkeyCallbackThread)
    /\ UNCHANGED << screenshot_history, screenshot_selector, pending_prompt,
                    provider, selectors, mainQueue, cbThreads,
                    workers, crashed, nextImg, nextSel, appended,
                    histThreads, pendThreads >>

\* scroll_up_handler / scroll_down_handler: self.overlay.scroll_up() / scroll_down()
scroll_handler ==
    /\ UNCHANGED << streamVars, hotkeyVars, responseVars, panelVars >>
    /\ CanPress
    /\ nPress' = nPress + 1
    /\ uiThreads' = uiThreads \cup {HotkeyCallbackThread}
    /\ UNCHANGED << screenshot_history, screenshot_selector, pending_prompt,
                    current_prompt_index, cfg_index, provider, selectors, mainQueue,
                    cbThreads, workers, crashed, nextImg, nextSel, appended,
                    histThreads, pendThreads >>

\* ---------------------------------------------------- callback threads
\* send_current_prompt up to trigger_prompt's write of pending_prompt.
send_current_prompt ==
    /\ UNCHANGED << streamVars, hotkeyVars, responseVars, panelVars >>
    /\ ~crashed
    /\ \E t \in cbThreads :
        /\ t.kind = "send" /\ t.pc = "start"
        /\ LET inRange == 0 <= current_prompt_index /\ current_prompt_index < Len(Prompts)
               idx == ClampedIndex(current_prompt_index, Len(Prompts))
               current_prompt == Prompts[idx + 1]
           IN /\ current_prompt_index' = idx
              /\ cfg_index' = IF inRange THEN cfg_index ELSE 0
              /\ IF use_selector
                 THEN /\ pending_prompt' = current_prompt
                      /\ pendThreads' = pendThreads \cup {"callback"}
                      /\ cbThreads' = (cbThreads \ {t}) \cup {[t EXCEPT !.pc = "emit"]}
                      /\ UNCHANGED << workers, nextImg >>
                 ELSE /\ process_prompt_with_screenshot(nextImg, current_prompt)
                      /\ nextImg' = nextImg + 1
                      /\ cbThreads' = cbThreads \ {t}
                      /\ UNCHANGED << pending_prompt, pendThreads >>
    /\ UNCHANGED << screenshot_history, screenshot_selector, provider, selectors,
                    mainQueue, crashed, nPress, nextSel, appended,
                    histThreads, uiThreads >>

\* Mutant of trigger_prompt_emit: the emission blocks until the main thread
\* has nothing else queued.
trigger_prompt_emit_Blocking ==
    /\ UNCHANGED << streamVars, hotkeyVars, responseVars, panelVars >>
    /\ ~crashed
    /\ mainQueue = <<>>
    /\ \E t \in cbThreads :
        /\ t.kind = "send" /\ t.pc = "emit"
        /\ mainQueue' = PostEvent(mainQueue, Event("trigger", TRUE, 0, <<>>))
        /\ cbThreads' = cbThreads \ {t}
    /\ UNCHANGED << screenshot_history, screenshot_selector, pending_prompt,
                    current_prompt_index, cfg_index, provider, selectors,
                    workers, crashed, nPress, nextImg, nextSel, appended,
                    histThreads, pendThreads, uiThreads >>

\* trigger_prompt: self.trigger_screenshot_signal.emit(True)
trigger_prompt_emit ==
    /\ UNCHANGED << streamVars, hotkeyVars, responseVars, panelVars >>
    /\ ~crashed
    /\ \E t \in cbThreads :
        /\ t.kind = "send" /\ t.pc = "emit"
        /\ mainQueue' = PostEvent(mainQueue, Event("trigger", TRUE, 0, <<>>))
        /\ cbThreads' = cbThreads \ {t}
    /\ UNCHANGED << screenshot_history, screenshot_selector, pending_prompt,
                    current_prompt_index, cfg_index, provider, selectors,
                    workers, crashed, nPress, nextImg, nextSel, appended,
                    histThreads, pendThreads, uiThreads >>

\* capture_screenshot_only up to its write of pending_prompt.
capture_screenshot_only ==
    /\ UNCHANGED << streamVars, hotkeyVars, responseVars, panelVars >>
    /\ ~crashed
    /\ \E t \in cbThreads :
        /\ t.kind = "only" /\ t.pc = "start"
        /\ IF use_selector
           THEN /\ pending_prompt' = None
                /\ pendThreads' = pendThreads \cup {"callback"}
                /\ cbThreads' = (cbThreads \ {t}) \cup {[t EXCEPT !.pc = "emit"]}
                /\ UNCHANGED << screenshot_history, appended, histThreads, nextImg >>
           ELSE /\ save_screenshot_to_history(nextImg, "callback")
                /\ nextImg' = nextImg + 1
                /\ cbThreads' = cbThreads \ {t}
                /\ UNCHANGED << pending_prompt, pendThreads >>
    /\ UNCHANGED << screenshot_selector, current_prompt_index, cfg_index, provider,
                    selectors, mainQueue, workers, crashed, nPress, nextSel,
                    uiThreads >>

\* capture_screenshot_only: self.trigger_screenshot_signal.emit(False)
capture_screenshot_only_emit ==
    /\ UNCHANGED << streamVars, hotkeyVars, responseVars, panelVars >>
    /\ ~crashed
    /\ \E t \in cbThreads :
        /\ t.kind = "only" /\ t.pc = "emit"
        /\ mainQueue' = PostEvent(mainQueue, Event("trigger", FALSE, 0, <<>>))
        /\ cbThreads' = cbThreads \ {t}
    /\ UNCHANGED << screenshot_history, screenshot_selector, pending_prompt,
                    current_prompt_index, cfg_index, provider, selectors,
                    workers, crashed, nPress, nextImg, nextSel, appended,
                    histThreads, pendThreads, uiThreads >>

\* clear_screenshot_history, the emptiness test (line 1768).
clear_screenshot_history_check ==
    /\ UNCHANGED << streamVars, hotkeyVars, responseVars, panelVars >>
    /\ ~crashed
    /\ \E t \in cbThreads :
        /\ t.kind = "clear" /\ t.pc = "start"
        /\ cbThreads' = IF screenshot_history = <<>>
                        THEN cbThreads \ {t}
                        ELSE (cbThreads \ {t}) \cup {[t EXCEPT !.pc = "clear"]}
    /\ UNCHANGED << screenshot_history, screenshot_selector, pending_prompt,
                    current_prompt_index, cfg_index, provider, selectors, mainQueue,
                    workers, crashed, nPress, nextImg, nextSel, appended,
                    histThreads, pendThreads, uiThreads >>

\* clear_screenshot_history, self.screenshot_history.clear() (line 1779).
clear_screenshot_history ==
    /\ UNCHANGED << streamVars, hotkeyVars, responseVars, panelVars >>
    /\ ~crashed
    /\ \E t \in cbThreads :
        /\ t.kind = "clear" /\ t.pc = "clear"
        /\ cbThreads' = cbThreads \ {t}
    /\ screenshot_history' = <<>>
    /\ appended' = <<>>
    /\ histThreads' = histThreads \cup {"callback"}
    /\ UNCHANGED << screenshot_selector, pending_prompt,
                    current_prompt_index, cfg_index, provider, selectors, mainQueue,
                    workers, crashed, nPress, nextImg, nextSel,
                    pendThreads, uiThreads >>

\* ------------------------------------------------------ main thread
\* The selectors that can still emit once the app's reference to selector
\* `old` is overwritten: the unreferenced widget is collected, or survives
\* (a reference cycle keeps it until a later collection).
AfterDrop(sels, old, survives) ==
    IF survives THEN sels ELSE { s \in sels : s.id # old }

HeadIs(type) == mainQueue # <<>> /\ Head(mainQueue).type = type

\* Whether the app holds a selector that is still open.
HoldsOpenSelector == \E s \in selectors : s.id = screenshot_selector

\* start_smart_screenshot.  how: "ok", "ctor" (ScreenshotSelector() raises) or
\* "start" (start_capture raises); shot: whether the fallback capture_screen()
\* returns.
start_smart_screenshot(how, survives, shot) ==
    /\ screenshot_selector' = IF how = "ctor" THEN screenshot_selector ELSE nextSel
    /\ nextSel' = IF how = "ctor" THEN nextSel ELSE nextSel + 1
    /\ selectors' =
         IF how = "ctor" THEN selectors
         ELSE AfterDrop(selectors, screenshot_selector, survives)
              \cup (IF how = "ok" THEN {[id |-> nextSel, kind |-> "prompt"]} ELSE {})
    /\ IF how # "ok" /\ pending_prompt # None
       THEN IF shot
            THEN /\ process_prompt_with_screenshot(nextImg, pending_prompt)
                 /\ nextImg' = nextImg + 1
                 /\ UNCHANGED crashed
            ELSE /\ crashed' = TRUE
                 /\ UNCHANGED << workers, nextImg >>
       ELSE UNCHANGED << workers, nextImg, crashed >>
    /\ UNCHANGED << screenshot_history, appended, histThreads >>

\* start_smart_screenshot_only, with the same parameters.
start_smart_screenshot_only(how, survives, shot) ==
    /\ screenshot_selector' = IF how = "ctor" THEN screenshot_selector ELSE nextSel
    /\ nextSel' = IF how = "ctor" THEN nextSel ELSE nextSel + 1
    /\ selectors' =
         IF how = "ctor" THEN selectors
         ELSE AfterDrop(selectors, screenshot_selector, survives)
              \cup (IF how = "ok" THEN {[id |-> nextSel, kind |-> "only"]} ELSE {})
    /\ IF how # "ok"
       THEN IF shot
            THEN /\ save_screenshot_to_history(nextImg, "main")
                 /\ nextImg' = nextImg + 1
                 /\ UNCHANGED crashed
            ELSE /\ crashed' = TRUE
                 /\ UNCHANGED << screenshot_history, appended, histThreads, nextImg >>
       ELSE UNCHANGED << screenshot_history, appended, histThreads, nextImg, crashed >>
    /\ UNCHANGED workers

\* handle_screenshot_in_main_thread(with_prompt), the slot of
\* trigger_screenshot_signal.
handle_screenshot_in_main_thread ==
    /\ UNCHANGED << streamVars, hotkeyVars, responseVars, panelVars >>
    /\ ~crashed
    /\ HeadIs("trigger")
    /\ mainQueue' = Tail(mainQueue)
    /\ \E how \in {"ok", "ctor", "start"} :
       \E survives \in (IF how # "ctor" /\ HoldsOpenSelector THEN BOOLEAN ELSE {FALSE}) :
       \E shot \in (IF how # "ok" THEN BOOLEAN ELSE {TRUE}) :
          IF Head(mainQueue).flag
          THEN start_smart_screenshot(how, survives, shot)
          ELSE start_smart_screenshot_only(how, survives, shot)
    /\ UNCHANGED << pending_prompt, current_prompt_index, cfg_index, provider,
                    cbThreads, nPress, pendThreads, uiThreads >>

\* Mutant of AfterEmitAndClose: self.screenshot_selector is not closed.
AfterEmitAndClose_KeepsHeld(s) ==
    { x \in selectors : x.id # s.id }

\* The selectors left open when selector s has emitted and the handler has
\* closed self.screenshot_selector.
AfterEmitAndClose(s) ==
    { x \in selectors : x.id # s.id /\ x.id # screenshot_selector }

\* on_screenshot_taken(png_data), emitted by selector s.
on_screenshot_taken ==
    /\ UNCHANGED << streamVars, hotkeyVars, responseVars, panelVars >>
    /\ ~crashed
    /\ \E s \in selectors :
        /\ s.kind = "prompt"
        /\ selectors' = AfterEmitAndClose(s)
    /\ screenshot_selector' = 0
    /\ nextImg' = nextImg + 1
    /\ IF pending_prompt # None
       THEN /\ process_prompt_with_screenshot(nextImg, pending_prompt)
            /\ pending_prompt' = None
            /\ pendThreads' = pendThreads \cup {"main"}
       ELSE UNCHANGED << workers, pending_prompt, pendThreads >>
    /\ UNCHANGED << screenshot_history, current_prompt_index, cfg_index, provider,
                    mainQueue, cbThreads, crashed, nPress, nextSel, appended,
                    histThreads, uiThreads >>

\* on_screenshot_only_taken(png_data), emitted by selector s.
on_screenshot_only_taken ==
    /\ UNCHANGED << streamVars, hotkeyVars, responseVars, panelVars >>
    /\ ~crashed
    /\ \E s \in selectors :
        /\ s.kind = "only"
        /\ selectors' = AfterEmitAndClose(s)
    /\ screenshot_selector' = 0
    /\ nextImg' = nextImg + 1
    /\ save_screenshot_to_history(nextImg, "main")
    /\ UNCHANGED << pending_prompt, current_prompt_index, cfg_index, provider,
                    mainQueue, cbThreads, workers, crashed, nPress, nextSel,
                    pendThreads, uiThreads >>

\* on_screenshot_cancelled(), emitted by selector s.
on_screenshot_cancelled ==
    /\ UNCHANGED << streamVars, hotkeyVars, responseVars, panelVars >>
    /\ ~crashed
    /\ \E s \in selectors : selectors' = AfterEmitAndClose(s)
    /\ screenshot_selector' = 0
    /\ pending_prompt' = None
    /\ pendThreads' = pendThreads \cup {"main"}
    /\ UNCHANGED << screenshot_history, current_prompt_index, cfg_index, provider,
                    mainQueue, cbThreads, workers, crashed, nPress, nextImg, nextSel,
                    appended, histThreads, uiThreads >>

\* handle_toggle_overlay, the slot of toggle_overlay_signal.
handle_toggle_overlay ==
    /\ UNCHANGED << streamVars, hotkeyVars, responseVars, panelVars >>
    /\ ~crashed
    /\ HeadIs("toggle_overlay")
    /\ mainQueue' = Tail(mainQueue)
    /\ uiThreads' = uiThreads \cup {"main"}
    /\ UNCHANGED << screenshot_history, screenshot_selector, pending_prompt,
                    current_prompt_index, cfg_index, provider, selectors, cbThreads,
                    workers, crashed, nPress, nextImg, nextSel, appended,
                    histThreads, pendThreads >>

\* handle_toggle_provider, the slot of toggle_provider_signal.
handle_toggle_provider ==
    /\ UNCHANGED << streamVars, hotkeyVars, responseVars, controlVars, promptVars >>
    /\ ~crashed
    /\ HeadIs("toggle_provider")
    /\ mainQueue' = Tail(mainQueue)
    /\ LET new_provider == ToggledProvider(provider)
           r == AfterRadioChecked(form, new_provider, saved, new_provider)
       IN /\ provider' = r.provider
          /\ form' = r.form
          /\ saved' = r.saved
    /\ uiThreads' = uiThreads \cup {"main"}
    /\ UNCHANGED << screenshot_history, screenshot_selector, pending_prompt,
                    current_prompt_index, cfg_index, selectors, cbThreads,
                    workers, crashed, nPress, nextImg, nextSel, appended,
                    histThreads, pendThreads >>

\* handle_api_response(response), the slot of api_response_signal.
handle_api_response ==
    /\ UNCHANGED << streamVars, hotkeyVars, panelVars >>
    /\ ~crashed
    /\ HeadIs("api_response")
    /\ mainQueue' = Tail(mainQueue)
    /\ LET ev == Head(mainQueue)
           r == ev.req
       IN /\ workers' =
               IF IsErrorMessage(ev.text)
               THEN [workers EXCEPT ![r].consumed = @ + 1,
                                    ![r].render = "error", ![r].errlog = TRUE]
               ELSE [workers EXCEPT ![r].consumed = @ + 1, ![r].render = "html"]
          /\ clipboard' = ClipboardAfter(clipboard, ev.text)
          /\ extractions' = ExtractionsAfter(extractions, ev.text)
    /\ uiThreads' = uiThreads \cup {"main"}
    /\ UNCHANGED << screenshot_history, screenshot_selector, pending_prompt,
                    current_prompt_index, cfg_index, provider, selectors, cbThreads,
                    crashed, nPress, nextImg, nextSel, appended,
                    histThreads, pendThreads >>

\* Mutant of cleanup_screenshot_history: the request was given the history
\* list itself, so clearing the history empties the request's images too.
cleanup_screenshot_history_Aliased ==
    /\ UNCHANGED << streamVars, hotkeyVars, responseVars, panelVars >>
    /\ ~crashed
    /\ HeadIs("cleanup")
    /\ mainQueue' = Tail(mainQueue)
    /\ workers' = [r \in 1..Len(workers) |->
                     IF r = Head(mainQueue).req
                     THEN [workers[r] EXCEPT !.cleaned = @ + 1, !.images = <<>>]
                     ELSE workers[r]]
    /\ IF screenshot_history = <<>>
       THEN UNCHANGED << screenshot_history, appended, histThreads >>
       ELSE /\ screenshot_history' = <<>>
            /\ appended' = <<>>
            /\ histThreads' = histThreads \cup {"main"}
    /\ UNCHANGED << screenshot_selector, pending_prompt,
                    current_prompt_index, cfg_index, provider, selectors, cbThreads,
                    crashed, nPress, nextImg, nextSel, pendThreads, uiThreads >>

\* _cleanup_screenshot_history, the zero-delay single shot of a worker.
cleanup_screenshot_history ==
    /\ UNCHANGED << streamVars, hotkeyVars, responseVars, panelVars >>
    /\ ~crashed
    /\ HeadIs("cleanup")
    /\ mainQueue' = Tail(mainQueue)
    /\ workers' = [workers EXCEPT ![Head(mainQueue).req].cleaned = @ + 1]
    /\ IF screenshot_history = <<>>
       THEN UNCHANGED << screenshot_history, appended, histThreads >>
       ELSE /\ screenshot_history' = <<>>
            /\ appended' = <<>>
            /\ histThreads' = histThreads \cup {"main"}
    /\ UNCHANGED << screenshot_selector, pending_prompt,
                    current_prompt_index, cfg_index, provider, selectors, cbThreads,
                    crashed, nPress, nextImg, nextSel, pendThreads, uiThreads >>

\* ------------------------------------------------------ worker threads
\* _async_api_worker(all_images, prompt, provider): the try / except part.
async_api_worker ==
    /\ UNCHANGED << streamVars, hotkeyVars, responseVars, panelVars >>
    /\ ~crashed
    /\ \E r \in 1..Len(workers) :
        /\ workers[r].pc = "run"
        /\ \E out \in ProviderOutcomes(workers[r].provider) :
            /\ mainQueue' = PostAll(mainQueue, TryPosts(r, out))
            /\ workers' = [workers EXCEPT
                              ![r].pc = "finally", ![r].out = out,
                              ![r].calls = @ + AnalyzeCalls(workers[r].provider, out),
                              ![r].emitted = CountEvents(TryPosts(r, out), "api_response", r)]
    /\ UNCHANGED << screenshot_history, screenshot_selector, pending_prompt,
                    current_prompt_index, cfg_index, provider, selectors, cbThreads,
                    crashed, nPress, nextImg, nextSel, appended,
                    histThreads, pendThreads, uiThreads >>

\* _async_api_worker: finally: QTimer.singleShot(0, self._cleanup_screenshot_history)
async_api_worker_finally ==
    /\ UNCHANGED << streamVars, hotkeyVars, responseVars, panelVars >>
    /\ ~crashed
    /\ \E r \in 1..Len(workers) :
        /\ workers[r].pc = "finally"
        /\ mainQueue' = PostAll(mainQueue, FinallyPosts(r))
        /\ workers' = [workers EXCEPT ![r].pc = "done"]
    /\ UNCHANGED << screenshot_history, screenshot_selector, pending_prompt,
                    current_prompt_index, cfg_index, provider, selectors, cbThreads,
                    crashed, nPress, nextImg, nextSel, appended,
                    histThreads, pendThreads, uiThreads >>

\* ------------------------------------------------------------------ Next
Next ==
    \/ send_prompt_handler
    \/ screenshot_handler
    \/ clear_handler
    \/ toggle_handler
    \/ switch_provider_handler
    \/ switch_prompt_handler
    \/ scroll_handler
    \/ send_current_prompt
    \/ trigger_prompt_emit
    \/ capture_screenshot_only
    \/ capture_screenshot_only_emit
    \/ clear_screenshot_history_check
    \/ clear_screenshot_history
    \/ handle_screenshot_in_main_thread
    \/ on_screenshot_taken
    \/ on_screenshot_only_taken
    \/ on_screenshot_cancelled
    \/ handle_toggle_overlay
    \/ handle_toggle_provider
    \/ handle_api_response
    \/ cleanup_screenshot_history
    \/ async_api_worker
    \/ async_api_worker_finally

Spec == Init /\ [][Next]_vars

\* Fair scheduling of the worker threads and of the main thread's event loop:
\* a worker that can run does run, and an event at the head of the main
\* thread's queue is handled.  Hotkey presses, the hotkey callback threads
\* and the user's use of an open selector are not fair.
SpecFair ==
    /\ Spec
    /\ WF_vars(async_api_worker)
    /\ WF_vars(async_api_worker_finally)
    /\ WF_vars(handle_api_response)
    /\ WF_vars(cleanup_screenshot_history)
    /\ WF_vars(handle_screenshot_in_main_thread)
    /\ WF_vars(handle_toggle_overlay)
    /\ WF_vars(handle_toggle_provider)

\* ------------------------------------------------------------ SpecHistory
\* The history operations applied one after the other on the main thread,
\* to images drawn from HistImages.
HistSave ==
    /\ UNCHANGED << streamVars, hotkeyVars, responseVars, panelVars >>
    /\ Len(appended) < MaxSaves
    /\ \E png \in HistImages : save_screenshot_to_history(png, "main")
    /\ UNCHANGED << screenshot_selector, pending_prompt, current_prompt_index,
                    cfg_index, provider, selectors, mainQueue, cbThreads, workers,
                    crashed, nPress, nextImg, nextSel, pendThreads, uiThreads >>

\* Mutant of ClearOutcome: the newest image is kept.
ClearOutcome_KeepsNewest(h) ==
    IF h = <<>> THEN [history |-> h, report |-> "empty"]
    ELSE [history |-> <<h[Len(h)]>>, report |-> "cleared"]

\* clear_screenshot_history on history h: the history it leaves and what it
\* logs ("empty": nothing to clear; "cleared": n images cleared).
ClearOutcome(h) ==
    IF h = <<>> THEN [history |-> h, report |-> "empty"]
    ELSE [history |-> <<>>, report |-> "cleared"]

\* _cleanup_screenshot_history on history h: the history it leaves and what
\* it logs ("none": nothing; "cleared": n images cleared).
CleanupOutcome(h) ==
    IF h = <<>> THEN [history |-> h, report |-> "none"]
    ELSE [history |-> <<>>, report |-> "cleared"]

\* clear_screenshot_history run to completion.
HistClear ==
    /\ UNCHANGED << streamVars, hotkeyVars, responseVars, panelVars >>
    /\ screenshot_history' = ClearOutcome(screenshot_history).history
    /\ appended' = IF screenshot_history' = <<>> THEN <<>> ELSE appended
    /\ histThreads' = IF screenshot_history = <<>> THEN histThreads
                      ELSE histThreads \cup {"main"}
    /\ UNCHANGED << screenshot_selector, pending_prompt, current_prompt_index,
                    cfg_index, provider, selectors, mainQueue, cbThreads, workers,
                    crashed, nPress, nextImg, nextSel, pendThreads, uiThreads >>

\* _cleanup_screenshot_history run to completion.
HistCleanup ==
    /\ UNCHANGED << streamVars, hotkeyVars, responseVars, panelVars >>
    /\ screenshot_history' = CleanupOutcome(screenshot_history).history
    /\ appended' = IF screenshot_history' = <<>> THEN <<>> ELSE appended
    /\ histThreads' = IF screenshot_history = <<>> THEN histThreads
                      ELSE histThreads \cup {"main"}
    /\ UNCHANGED << screenshot_selector, pending_prompt, current_prompt_index,
                    cfg_index, provider, selectors, mainQueue, cbThreads, workers,
                    crashed, nPress, nextImg, nextSel, pendThreads, uiThreads >>

NextHistory == HistSave \/ HistClear \/ HistCleanup

SpecHistory == Init /\ [][NextHistory]_vars

\* ------------------------------------------------------------- SpecStream
\* _handle_streaming_response(response_stream) run on one stream.  An item of
\* the stream is a (chunk_text, is_complete) pair, or the iteration raising.
StreamItems ==
    { [kind |-> "chunk", text |-> t] : t \in ChunkTexts }
    \cup { [kind |-> "complete", text |-> t] : t \in {<<>>, <<"z">>} }
    \cup { [kind |-> "raise", text |-> <<>>] }

\* The streams of at most n items.
RECURSIVE StreamsUpTo(_)
StreamsUpTo(n) ==
    IF n = 0 THEN { <<>> }
    ELSE StreamsUpTo(n - 1)
         \cup { Append(st, it) : st \in { x \in StreamsUpTo(n - 1) : Len(x) = n - 1 },
                                  it \in StreamItems }

InitStream ==
    /\ InitApp /\ InitNoResponse /\ InitNoSetup /\ InitNoPanel
    /\ current_prompt_index = 0 /\ provider = "Gemini"
    /\ response_stream \in StreamsUpTo(MaxStreamLen)
    /\ arrived = <<>>
    /\ full_response = <<>> /\ overlay_chunks = <<>>
    /\ finish_calls = 0
    /\ completed = <<>> /\ fallback_rendered = <<>>
    /\ stream_pc = "idle"

\* Mutant of Accumulate: the chunk is put in front of the text so far.
Accumulate_Prepend(full, chunk_text) == chunk_text \o full

\* full_response += chunk_text
Accumulate(full, chunk_text) == full \o chunk_text

\* _process_complete_response(md_content): logs the length, nothing else.
process_complete_response(md_content) ==
    completed' = Append(completed, md_content)

\* _handle_streaming_response up to the loop: overlay.start_streaming(),
\* full_response = "".
handle_streaming_response ==
    /\ stream_pc = "idle"
    /\ stream_pc' = "loop"
    /\ full_response' = <<>>
    /\ UNCHANGED << response_stream, arrived, overlay_chunks, finish_calls,
                    completed, fallback_rendered >>
    /\ UNCHANGED << appVars, hotkeyVars, responseVars, panelVars >>

\* One iteration of `for chunk_text, is_complete in response_stream`,
\* including the except branch when the iteration raises.
handle_streaming_response_item ==
    /\ stream_pc = "loop"
    /\ response_stream # <<>>
    /\ LET item == Head(response_stream)
       IN /\ response_stream' = Tail(response_stream)
          /\ arrived' = Append(arrived, item)
          /\ IF item.kind = "complete"
             THEN /\ finish_calls' = finish_calls + 1
                  /\ process_complete_response(full_response)
                  /\ stream_pc' = "done"
                  /\ UNCHANGED << full_response, overlay_chunks, fallback_rendered >>
             ELSE IF item.kind = "chunk"
             THEN /\ full_response' = Accumulate(full_response, item.text)
                  /\ overlay_chunks' = Append(overlay_chunks, item.text)
                  /\ UNCHANGED << finish_calls, completed, fallback_rendered,
                                  stream_pc >>
             ELSE /\ finish_calls' = finish_calls + 1
                  /\ fallback_rendered' =
                       IF full_response # <<>>
                       THEN Append(fallback_rendered, full_response)
                       ELSE fallback_rendered
                  /\ stream_pc' = "failed"
                  /\ UNCHANGED << full_response, overlay_chunks, completed >>
    /\ UNCHANGED << appVars, hotkeyVars, responseVars, panelVars >>

\* The stream ends without a completion item: the loop is left and the
\* function returns.
handle_streaming_response_exhausted ==
    /\ stream_pc = "loop"
    /\ response_stream = <<>>
    /\ stream_pc' = "done"
    /\ UNCHANGED << response_stream, arrived, full_response, overlay_chunks,
                    finish_calls, completed, fallback_rendered >>
    /\ UNCHANGED << appVars, hotkeyVars, responseVars, panelVars >>

NextStream ==
    \/ handle_streaming_response
    \/ handle_streaming_response_item
    \/ handle_streaming_response_exhausted

SpecStream == InitStream /\ [][NextStream]_vars

\* ----------------------------------------------------------- SpecSettings
\* Texts of an API key field, of a base URL field and of the proxy field.
KeyTexts == {"", " ", "k"}
UrlTexts == {"", "u"}
ProxyTexts == {"", "http://proxy", "bad"}

\* Configurations the settings page can start from: complete, or with no
\* GPT key yet.
SavedConfigs == { DefaultSaved, [DefaultSaved EXCEPT !.gpt.api_key = ""] }

InitSettings ==
    /\ InitApp /\ InitNoStream /\ InitNoResponse /\ InitNoSetup
    /\ InitNoControl /\ InitNoPromptManager
    /\ saved \in SavedConfigs
    /\ form = LoadedForm(provider, saved)

\* The widgets after the user has edited one text field of f.
EditedForms(f) ==
    { [f EXCEPT !.gemini.api_key = t] : t \in KeyTexts }
    \cup { [f EXCEPT !.gemini.base_url = t] : t \in UrlTexts }
    \cup { [f EXCEPT !.gpt.api_key = t] : t \in KeyTexts }
    \cup { [f EXCEPT !.gpt.base_url = t] : t \in UrlTexts }
    \cup { [f EXCEPT !.proxy = t] : t \in ProxyTexts }

\* What the settings actions leave alone.
SettingsFrame ==
    /\ UNCHANGED << streamVars, hotkeyVars, responseVars, controlVars, promptVars >>
    /\ UNCHANGED << screenshot_history, screenshot_selector, pending_prompt,
                    current_prompt_index, cfg_index, selectors, mainQueue,
                    cbThreads, workers, crashed, nPress, nextImg, nextSel,
                    appended, histThreads, pendThreads >>
    /\ uiThreads' = uiThreads \cup {"main"}

\* A text field's editingFinished: handle_settings_change autosaves with
\* save_basic_settings(strict_validation=False).
handle_settings_change ==
    /\ ~crashed
    /\ \E f2 \in EditedForms(form) :
        /\ form' = f2
        /\ provider' = ConfigAfterSave(f2, provider, saved).provider
        /\ saved' = ConfigAfterSave(f2, provider, saved).saved
    /\ SettingsFrame

\* The user clicks a provider radio: on_provider_radio_changed.
on_provider_radio_changed ==
    /\ ~crashed
    /\ \E p \in RegisteredProviders :
        LET r == AfterRadioChecked(form, provider, saved, p)
        IN /\ form' = r.form
           /\ provider' = r.provider
           /\ saved' = r.saved
    /\ SettingsFrame

\* The save button: save_basic_settings(strict_validation=True).
save_basic_settings ==
    /\ ~crashed
    /\ form' = form
    /\ provider' = ConfigAfterSave(form, provider, saved).provider
    /\ saved' = ConfigAfterSave(form, provider, saved).saved
    /\ SettingsFrame

NextSettings ==
    \/ handle_settings_change
    \/ on_provider_radio_changed
    \/ save_basic_settings
    \/ switch_provider_handler
    \/ handle_toggle_provider

SpecSettings == InitSettings /\ [][NextSettings]_vars

\* ------------------------------------------------------------ SpecHotkeys
\* setup_hotkeys.  A binding is a hotkey with its handler; idx is the prompt
\* index of a prompt-switch binding and 0 otherwise.
Binding(name, idx) == [name |-> name, idx |-> idx]

\* The bindings setup_hotkeys makes, in the order of its code.
Bindings ==
    << Binding("send_prompt", 0) >>
    \o [i \in 1..Min(Len(Prompts), 9) |-> Binding("switch_prompt", i - 1)]
    \o << Binding("toggle", 0), Binding("screenshot_only", 0),
          Binding("clear_screenshots", 0), Binding("scroll_up", 0),
          Binding("scroll_down", 0), Binding("switch_provider", 0) >>

InitHotkeys ==
    /\ InitApp /\ InitNoStream /\ InitNoResponse /\ InitNoPanel
    /\ current_prompt_index = 0 /\ provider = "Gemini"
    /\ register_results \in [1..Len(Bindings) -> BOOLEAN]
    /\ attempted = <<>> /\ bind_logs = <<>>
    /\ setup_pc = "idle"

\* Mutant of SetupPcAfter: a failed registration ends setup_hotkeys.
SetupPcAfter_Abort(i, ok) ==
    IF i = Len(Bindings) \/ ~ok THEN "done" ELSE "run"

\* Where setup_hotkeys is after the i-th register_hotkey call has returned
\* ok: its statements follow one another unconditionally, so it goes on to
\* the next binding until the last.
SetupPcAfter(i, ok) ==
    IF i = Len(Bindings) THEN "done" ELSE "run"

\* setup_hotkeys is called (by start_listening).
setup_hotkeys ==
    /\ setup_pc = "idle"
    /\ setup_pc' = "run"
    /\ UNCHANGED << register_results, attempted, bind_logs >>
    /\ UNCHANGED << appVars, streamVars, responseVars, panelVars >>

\* One `if self.hotkey_handler.register_hotkey(key, handler): add_log(...)`:
\* the binding is attempted; a success is logged here, a failure by
\* register_hotkey.
setup_hotkeys_register ==
    /\ setup_pc = "run"
    /\ LET i == Len(attempted) + 1
           ok == register_results[i]
       IN /\ attempted' = Append(attempted, Bindings[i])
          /\ bind_logs' = Append(bind_logs,
                                 [binding |-> Bindings[i],
                                  level |-> IF ok THEN "bound" ELSE "failed"])
          /\ setup_pc' = SetupPcAfter(i, ok)
    /\ UNCHANGED register_results
    /\ UNCHANGED << appVars, streamVars, responseVars, panelVars >>

NextHotkeys ==
    \/ setup_hotkeys
    \/ setup_hotkeys_register

SpecHotkeys == InitHotkeys /\ [][NextHotkeys]_vars

\* ----------------------------------------------------------- SpecControls
\* The calls of switch_prompt, start_listening and stop_listening.
\* Indices switch_prompt is called with: below, inside and above the range.
SwitchIndices == (0 - 1)..(Len(Prompts) + 1)

\* Results of the register_hotkey calls of one setup_hotkeys run: all
\* bound, none bound, all but the first bound.
RegisterResults ==
    { [i \in 1..Len(Bindings) |-> TRUE], [i \in 1..Len(Bindings) |-> FALSE],
      [i \in 1..Len(Bindings) |-> i # 1] }

\* The log entries of a whole setup_hotkeys run with results res.
SetupLogs(res) ==
    [i \in 1..Len(Bindings) |->
        [binding |-> Bindings[i], level |-> IF res[i] THEN "bound" ELSE "failed"]]

\* How a start_listening call can go: hotkey_handler.start_listening()
\* returns True ("ok"), returns False ("false") or raises ("raises"), or
\* Overlay() raises when the overlay has to be created first.
StartOutcomes(has_overlay) ==
    IF has_overlay THEN {"ok", "false", "raises"}
    ELSE {"ok", "false", "raises", "overlay_raises"}

\* stop_listening: the controls afterwards.
ControlsAfterStop == [start_btn |-> TRUE, stop_btn |-> FALSE, status |-> "stopped"]

\* Mutant of ControlsAfterStart: the old listener is not stopped first.
ControlsAfterStart_NoStop(c, how) ==
    IF how = "ok"
    THEN [start_btn |-> FALSE, stop_btn |-> TRUE, status |-> "running"]
    ELSE [c EXCEPT !.status = "start_failed"]

\* start_listening from controls c: stop_listening runs first (unless
\* Overlay() raised), then a successful start enables stop_btn and shows
\* "运行中"; a failure shows "启动失败".
ControlsAfterStart(c, how) ==
    IF how = "overlay_raises" THEN [c EXCEPT !.status = "start_failed"]
    ELSE IF how = "ok"
    THEN [start_btn |-> FALSE, stop_btn |-> TRUE, status |-> "running"]
    ELSE [ControlsAfterStop EXCEPT !.status = "start_failed"]

InitControls == Init

\* What the control actions leave alone.
ControlsFrame ==
    /\ UNCHANGED << streamVars, responseVars, settingsVars, prompts, combo_index >>
    /\ UNCHANGED << screenshot_history, screenshot_selector, pending_prompt,
                    provider, selectors, mainQueue, cbThreads, workers, crashed,
                    nPress, nextImg, nextSel, appended, histThreads, pendThreads >>

\* switch_prompt(index) called with any index.
switch_prompt_call ==
    /\ ~crashed
    /\ \E index \in SwitchIndices :
        /\ switch_prompt(index, HotkeyCallbackThread)
        /\ last_op' = [op |-> "switch_prompt", index |-> index, how |-> "ok"]
    /\ UNCHANGED << controlVars, hotkeyVars >>
    /\ ControlsFrame

\* start_listening, with stop_listening and setup_hotkeys inside.
start_listening ==
    /\ ~crashed
    /\ \E how \in StartOutcomes(overlay) :
       \E res \in RegisterResults :
        LET c == ControlsAfterStart([start_btn |-> start_btn, stop_btn |-> stop_btn,
                                     status |-> status], how)
        IN /\ start_btn' = c.start_btn
           /\ stop_btn' = c.stop_btn
           /\ status' = c.status
           /\ overlay' = (overlay \/ how # "overlay_raises")
           /\ IF how = "overlay_raises"
              THEN UNCHANGED hotkeyVars
              ELSE /\ register_results' = res
                   /\ attempted' = Bindings
                   /\ bind_logs' = SetupLogs(res)
                   /\ setup_pc' = "done"
           /\ last_op' = [op |-> "start_listening", index |-> 0, how |-> how]
    /\ uiThreads' = uiThreads \cup {"main"}
    /\ UNCHANGED << current_prompt_index, cfg_index >>
    /\ ControlsFrame

\* stop_listening.
stop_listening ==
    /\ ~crashed
    /\ start_btn' = ControlsAfterStop.start_btn
    /\ stop_btn' = ControlsAfterStop.stop_btn
    /\ status' = ControlsAfterStop.status
    /\ last_op' = [op |-> "stop_listening", index |-> 0, how |-> "ok"]
    /\ uiThreads' = uiThreads \cup {"main"}
    /\ UNCHANGED << overlay, hotkeyVars, current_prompt_index, cfg_index >>
    /\ ControlsFrame

NextControls ==
    \/ switch_prompt_call
    \/ start_listening
    \/ stop_listening

SpecControls == InitControls /\ [][NextControls]_vars

\* ------------------------------------------------------ SpecPromptManager
\* PromptManagerWidget: the texts the user can type into the name, hotkey
\* and content fields.
NameTexts == {"", "n1", "n2"}
HotkeyTexts == {"", "h1", " h1", "h2", "h3"}
ContentTexts == {" ", "c"}

\* Prompt lists the configuration can hold at start: up to two prompts.
InitialPrompts ==
    { <<>>,
      << [name |-> "n1", hotkey |-> "h1", content |-> "c"] >>,
      << [name |-> "n1", hotkey |-> "h2", content |-> "c"],
         [name |-> "n2", hotkey |-> "h1", content |-> "c"] >> }

\* Whether a prompt of ps other than the one at (0-based) position skip has
\* the hotkey.
HotkeyTaken(ps, hotkey, skip) ==
    \E i \in 1..Len(ps) : i - 1 # skip /\ ps[i].hotkey = hotkey

\* load_prompts_list: the combo index for the list ps.
IndexAfterLoad(ps) == IF ps = <<>> THEN 0 - 1 ELSE 0

\* all([name, hotkey, content]) on the stripped field texts.
FieldsFilled(name, hotkey, content) ==
    Strip(name) # "" /\ Strip(hotkey) # "" /\ Strip(content) # ""

\* add_prompt gets past both of its checks.
AddAccepted(ps, name, hotkey, content) ==
    /\ FieldsFilled(name, hotkey, content)
    /\ ~HotkeyTaken(ps, Strip(hotkey), 0 - 1)

\* The prompt add_prompt and update_prompt build from the field texts.
NewPrompt(name, hotkey, content) ==
    [name |-> Strip(name), hotkey |-> Strip(hotkey), content |-> Strip(content)]

\* Mutant of AddOutcome: the new prompt is put first.
AddOutcome_Prepend(ps, name, hotkey, content) ==
    IF AddAccepted(ps, name, hotkey, content)
    THEN << NewPrompt(name, hotkey, content) >> \o ps
    ELSE ps

\* add_prompt with the field texts: the stored list afterwards.
AddOutcome(ps, name, hotkey, content) ==
    IF AddAccepted(ps, name, hotkey, content)
    THEN Append(ps, NewPrompt(name, hotkey, content))
    ELSE ps

\* Mutant of UpdateAccepted: the hotkey is not compared with the others.
UpdateAccepted_NoHotkeyCheck(ps, index, name, hotkey, content) ==
    /\ index >= 0
    /\ FieldsFilled(name, hotkey, content)

\* update_prompt of the prompt at combo index `index` gets past its checks.
UpdateAccepted(ps, index, name, hotkey, content) ==
    /\ index >= 0
    /\ FieldsFilled(name, hotkey, content)
    /\ ~HotkeyTaken(ps, Strip(hotkey), index)

\* update_prompt: the stored list afterwards.
UpdateOutcome(ps, index, name, hotkey, content) ==
    IF UpdateAccepted(ps, index, name, hotkey, content)
    THEN [ps EXCEPT ![index + 1] = NewPrompt(name, hotkey, content)]
    ELSE ps

\* delete_prompt of the prompt at combo index `index` goes through, the
\* user answering the confirmation with yes or not.
DeleteAccepted(ps, index, yes) == index >= 0 /\ index < Len(ps) /\ yes

\* delete_prompt: the stored list afterwards (prompts.pop(index)).
DeleteOutcome(ps, index, yes) ==
    IF DeleteAccepted(ps, index, yes)
    THEN [i \in 1..(Len(ps) - 1) |-> IF i <= index THEN ps[i] ELSE ps[i + 1]]
    ELSE ps

\* The record of a prompt-manager operation.
PromptOp(op, name, hotkey, content, index) ==
    [op |-> op, name |-> name, hotkey |-> hotkey, content |-> content,
     index |-> index]

InitPromptManager ==
    /\ InitApp /\ InitNoStream /\ InitNoResponse /\ InitNoSetup
    /\ InitNoControl /\ InitNoSettings
    /\ current_prompt_index = 0 /\ provider = "Gemini"
    /\ prompts \in InitialPrompts
    /\ combo_index = IndexAfterLoad(prompts)
    /\ last_op = PromptOp("none", "", "", "", 0 - 1)

\* What the prompt manager leaves alone.
PromptManagerFrame ==
    UNCHANGED << appVars, streamVars, hotkeyVars, responseVars, controlVars,
                 settingsVars >>

\* The user picks entry i of the combo box (on_prompt_selected).
on_prompt_selected ==
    /\ \E i \in 0..(Len(prompts) - 1) :
        /\ combo_index' = i
        /\ last_op' = PromptOp("select", "", "", "", i)
    /\ UNCHANGED prompts
    /\ PromptManagerFrame

\* add_prompt, the fields holding name, hotkey and content; an accepted
\* prompt reloads the list.
add_prompt ==
    /\ \E name \in NameTexts, hotkey \in HotkeyTexts, content \in ContentTexts :
        /\ prompts' = AddOutcome(prompts, name, hotkey, content)
        /\ combo_index' = IF AddAccepted(prompts, name, hotkey, content)
                          THEN IndexAfterLoad(prompts')
                          ELSE combo_index
        /\ last_op' = PromptOp("add", name, hotkey, content, combo_index)
    /\ PromptManagerFrame

\* update_prompt.
update_prompt ==
    /\ \E name \in NameTexts, hotkey \in HotkeyTexts, content \in ContentTexts :
        /\ prompts' = UpdateOutcome(prompts, combo_index, name, hotkey, content)
        /\ combo_index' =
              IF UpdateAccepted(prompts, combo_index, name, hotkey, content)
              THEN IndexAfterLoad(prompts')
              ELSE combo_index
        /\ last_op' = PromptOp("update", name, hotkey, content, combo_index)
    /\ PromptManagerFrame

\* delete_prompt.
delete_prompt ==
    /\ \E yes \in BOOLEAN :
        /\ prompts' = DeleteOutcome(prompts, combo_index, yes)
        /\ combo_index' = IF DeleteAccepted(prompts, combo_index, yes)
                          THEN IndexAfterLoad(prompts')
                          ELSE combo_index
        /\ last_op' = PromptOp("delete", "", "", IF yes THEN "yes" ELSE "no",
                                combo_index)
    /\ PromptManagerFrame

NextPromptManager ==
    \/ on_prompt_selected
    \/ add_prompt
    \/ update_prompt
    \/ delete_prompt

SpecPromptManager == InitPromptManager /\ [][NextPromptManager]_vars

\* ------------------------------------------------------------- SpecPrompt
\* update_current_prompt_display, called by the main thread's UI code: the
\* in-memory index is clamped (the configuration is not written) and the
\* label is set.
update_current_prompt_display ==
    /\ UNCHANGED << streamVars, hotkeyVars, responseVars, panelVars >>
    /\ ~crashed
    /\ Len(Prompts) > 0
    /\ current_prompt_index' = ClampedIndex(current_prompt_index, Len(Prompts))
    /\ uiThreads' = uiThreads \cup {"main"}
    /\ UNCHANGED << screenshot_history, screenshot_selector, pending_prompt,
                    cfg_index, provider, selectors, mainQueue, cbThreads, workers,
                    crashed, nPress, nextImg, nextSel, appended, histThreads,
                    pendThreads >>

\* Selecting, displaying and sending prompts.
NextPrompt ==
    \/ update_current_prompt_display
    \/ switch_prompt_handler
    \/ send_prompt_handler
    \/ send_current_prompt
    \/ trigger_prompt_emit

SpecPrompt == Init /\ [][NextPrompt]_vars

\* ----------------------------------------------------------- SpecResponse
\* The main thread consuming the outcomes of requests whose workers have
\* finished, for provider results with and without code blocks.
ResponseTexts ==
    { <<>>, <<"md">>, <<"md", "code1">>, <<"code1", "md", "code2">>,
      <<"ERR:", "code1">> }

ResponseOutcomes ==
    { [kind |-> "exc", text |-> ProviderError] }
    \cup { [kind |-> "ret", text |-> t] : t \in ResponseTexts }

\* The sequences of 1 to n outcomes.
RECURSIVE OutcomeSeqs(_)
OutcomeSeqs(n) ==
    IF n = 0 THEN {}
    ELSE { <<o>> : o \in ResponseOutcomes }
         \cup { Append(os, o) : os \in OutcomeSeqs(n - 1), o \in ResponseOutcomes }

\* The request whose worker, given image r, has finished with outcome out.
FinishedWorker(r, out) ==
    [ images |-> <<r>>, prompt |-> Prompts[1], provider |-> "Gemini",
      pc |-> "done", out |-> out,
      calls |-> AnalyzeCalls("Gemini", out),
      emitted |-> CountEvents(TryPosts(r, out), "api_response", r),
      consumed |-> 0, cleaned |-> 0,
      render |-> "none", errlog |-> FALSE, afterFailure |-> FALSE ]

\* What the workers of requests 1..Len(outs) have posted, one worker after
\* the other.
RECURSIVE PostedBy(_, _)
PostedBy(outs, r) ==
    IF r > Len(outs) THEN <<>>
    ELSE TryPosts(r, outs[r]) \o FinallyPosts(r) \o PostedBy(outs, r + 1)

InitResponse ==
    /\ InitNoStream /\ InitNoResponse /\ InitNoSetup
    /\ screenshot_history = <<>>
    /\ screenshot_selector = 0
    /\ pending_prompt = None
    /\ current_prompt_index = 0
    /\ cfg_index = 0
    /\ provider = "Gemini"
    /\ InitNoPanel
    /\ selectors = {}
    /\ cbThreads = {}
    /\ crashed = FALSE
    /\ appended = <<>>
    /\ histThreads = {} /\ pendThreads = {"callback", "main"} /\ uiThreads = {}
    /\ \E outs \in OutcomeSeqs(MaxResponses) :
         /\ workers = [r \in 1..Len(outs) |-> FinishedWorker(r, outs[r])]
         /\ mainQueue = PostAll(<<>>, PostedBy(outs, 1))
         /\ nPress = Len(outs)
         /\ nextImg = Len(outs) + 1
         /\ nextSel = Len(outs) + 1

NextResponse ==
    \/ handle_api_response
    \/ cleanup_screenshot_history

SpecResponse == InitResponse /\ [][NextResponse]_vars

\* ================================================================ claims
Requests == 1..Len(workers)

\* C1: after every save into the history its length is at most
\* MAX_SCREENSHOT_HISTORY, and it holds exactly the last
\* min(n, MAX_SCREENSHOT_HISTORY) of the n images saved, in the order saved.
C1_HistoryBounded ==
    /\ Len(screenshot_history) <= MAX_SCREENSHOT_HISTORY
    /\ screenshot_history
         = LastN(appended, Min(Len(appended), MAX_SCREENSHOT_HISTORY))

\* C1 witness: two more images than the limit were saved, and the two oldest
\* are gone.
C1_Witness ==
    /\ appended = <<1, 2, 3, 1>>
    /\ screenshot_history = <<3, 1>>

\* A step of a new capture request: trigger_prompt or capture_screenshot_only
\* writing pending_prompt, or the main thread handling the request's event.
NewRequestStep ==
    \/ \E t \in cbThreads : t.pc = "start" /\ t.kind \in {"send", "only"}
                            /\ t \notin cbThreads'
    \/ HeadIs("trigger") /\ mainQueue' = Tail(mainQueue)

\* C2: a capture request issued while an earlier request awaits its capture
\* (its selector is open) is rejected: it changes neither pending_prompt nor
\* the selector.
C2_SecondRequestRejected ==
    [][ HoldsOpenSelector /\ NewRequestStep
          => /\ pending_prompt' = pending_prompt
             /\ screenshot_selector' = screenshot_selector ]_vars

\* C3: every dispatched request emits exactly one outcome, which is in the
\* main thread's queue until handle_api_response consumes it, once.
C3_ExactlyOneOutcome ==
    \A r \in Requests :
        /\ workers[r].pc = "run" => workers[r].emitted = 0
        /\ workers[r].pc # "run" => workers[r].emitted = 1
        /\ workers[r].consumed <= 1
        /\ workers[r].consumed + CountEvents(mainQueue, "api_response", r)
             = workers[r].emitted

\* C3 witness: a request whose provider raised and one whose provider
\* returned nothing have each had their one outcome consumed.
C3_Witness ==
    \E r1, r2 \in Requests :
        /\ workers[r1].out.kind = "exc" /\ workers[r1].consumed = 1
        /\ workers[r2].out = [kind |-> "ret", text |-> <<>>]
        /\ workers[r2].consumed = 1

\* C4: at most one dispatched request is in flight (its outcome not yet
\* consumed) at any time.
C4_AtMostOneInFlight ==
    Cardinality({ r \in Requests : workers[r].consumed = 0 }) <= 1

\* C5: when the provider call raises, the outcome posted to the main thread
\* is an error message carrying the exception's message, and consuming it
\* renders an error and logs it; once it is consumed, a capture request at
\* the head of the main thread's queue can be handled.
C5_FailureRendered ==
    \A r \in Requests :
        workers[r].out.kind = "exc" =>
            /\ \A i \in 1..Len(mainQueue) :
                 (mainQueue[i].type = "api_response" /\ mainQueue[i].req = r)
                   => /\ IsErrorMessage(mainQueue[i].text)
                      /\ LastN(mainQueue[i].text, Len(workers[r].out.text))
                           = workers[r].out.text
            /\ workers[r].consumed > 0
                 => /\ workers[r].render = "error" /\ workers[r].errlog
                    /\ (HeadIs("trigger") /\ ~crashed)
                         => ENABLED handle_screenshot_in_main_thread

\* C5 witness: a request dispatched after a failure was consumed and rendered
\* as an error has itself been answered and rendered.
C5_Witness ==
    \E r1, r2 \in Requests :
        /\ workers[r1].out.kind = "exc" /\ workers[r1].render = "error"
        /\ workers[r2].afterFailure
        /\ workers[r2].out.kind = "ret" /\ workers[r2].render = "html"

\* C6: within a request the events are ordered: capture, dispatch, exactly
\* one outcome, its consumption, then the cleanup; the cleanup of a request
\* never runs before its outcome has been consumed.
C6_CleanupAfterOutcome ==
    \A r \in Requests :
        /\ workers[r].images[Len(workers[r].images)] < nextImg
        /\ workers[r].emitted > 0 => workers[r].pc # "run"
        /\ workers[r].consumed > 0 => workers[r].emitted = 1
        /\ workers[r].cleaned <= 1
        /\ workers[r].cleaned > 0 => workers[r].consumed = 1

\* C6 witness: a request has gone through all of its events.
C6_Witness ==
    \E r \in Requests :
        workers[r].consumed = 1 /\ workers[r].cleaned = 1 /\ workers[r].pc = "done"

\* C7: no request is dispatched (no process_prompt_with_screenshot reads the
\* history) between the delivery of an outcome and the cleanup of its request.
C7_NoDispatchBeforeCleanup ==
    [][ Len(workers') > Len(workers)
          => \A r \in Requests :
                ~(workers[r].consumed > 0 /\ workers[r].cleaned = 0) ]_vars

\* C8: the history is mutated by the main thread only.
C8_HistoryOnMainThread == histThreads \subseteq {"main"}

\* C9: pending_prompt is written by the main thread only.
C9_PendingOnMainThread == pendThreads \subseteq {"main"}

\* C10: UI objects are touched by the main thread only.
C10_UiOnMainThread == uiThreads \subseteq {"main"}

\* C11: under fair scheduling of the workers and of the main thread, every
\* dispatched request eventually has its outcome consumed, its worker
\* finished and its cleanup executed.
C11_EventuallyReleased ==
    \A r \in 1..MaxPresses :
        (Len(workers) >= r)
          ~> (/\ Len(workers) >= r
              /\ workers[r].consumed = 1
              /\ workers[r].cleaned = 1
              /\ workers[r].pc = "done")

\* ---- how a step routes a captured image
\* The selectors a step closes.
Closed == selectors \ selectors'

\* The step hands png with prompt to the dispatch step: one more worker,
\* started with that prompt on the history followed by png.
Dispatched(png, prompt) ==
    /\ Len(workers') = Len(workers) + 1
    /\ SubSeq(workers', 1, Len(workers)) = workers
    /\ workers'[Len(workers')].prompt = prompt
    /\ workers'[Len(workers')].images = screenshot_history \o <<png>>
    /\ workers'[Len(workers')].pc = "run"

\* The step appends png to the history and starts no dispatch.
AppendedOnly(png) ==
    /\ screenshot_history' # <<>>
    /\ screenshot_history'[Len(screenshot_history')] = png
    /\ workers' = workers

\* A step in which an open selector delivers an image.
InteractiveCapture ==
    /\ nextImg' = nextImg + 1
    /\ mainQueue' = mainQueue
    /\ Closed # {}

\* C12: when an interactive capture succeeds, the image of a capture-only
\* selector is appended to the history and nothing is dispatched; the image
\* of a send-prompt selector is dispatched with pending_prompt when a prompt
\* is present, and the history is left alone.
C12_CaptureRouting ==
    [][ InteractiveCapture
          => \/ /\ \E s \in Closed : s.kind = "only"
                /\ AppendedOnly(nextImg)
             \/ /\ \E s \in Closed : s.kind = "prompt"
                /\ screenshot_history' = screenshot_history
                /\ pending_prompt # None => Dispatched(nextImg, pending_prompt)
                /\ pending_prompt = None => workers' = workers ]_vars

\* C12 witness: a capture-only image went into the history and the image of
\* a later send-prompt selector was dispatched on top of it.
C12_Witness ==
    /\ screenshot_history = <<1>>
    /\ Len(workers) = 1 /\ workers[1].images = <<1, 2>>
    /\ screenshot_selector = 0 /\ nextSel = 3 /\ selectors = {}

\* A step in which an open selector reports that the user cancelled.
CancelStep ==
    /\ Closed # {}
    /\ nextImg' = nextImg
    /\ mainQueue' = mainQueue

\* C13: a cancelled capture discards the pending request and has no other
\* effect: pending_prompt becomes null, the history and the requests are
\* unchanged, nothing is posted, and the app holds no selector (the one it
\* held is closed).
C13_CancelFrame ==
    [][ CancelStep
          => /\ pending_prompt' = None
             /\ screenshot_selector' = 0
             /\ \A s \in selectors' : s.id # screenshot_selector
             /\ screenshot_history' = screenshot_history
             /\ appended' = appended
             /\ workers' = workers
             /\ provider' = provider
             /\ current_prompt_index' = current_prompt_index ]_vars

\* C13 witness: a send-prompt capture was cancelled: nothing was captured or
\* dispatched and the prompt is gone.
C13_Witness ==
    /\ nextSel = 2 /\ selectors = {} /\ screenshot_selector = 0
    /\ pending_prompt = None /\ "main" \in pendThreads
    /\ nextImg = 1 /\ workers = <<>> /\ mainQueue = <<>> /\ cbThreads = {}

\* A step in which a capture request is handled, no selector is opened and
\* no exception escapes: the selector could not start and the fallback ran.
FallbackStep ==
    /\ HeadIs("trigger")
    /\ mainQueue' = Tail(mainQueue)
    /\ selectors' \subseteq selectors
    /\ ~crashed'

\* C14: when the selector cannot start, exactly one full-screen capture is
\* made; its image is dispatched with pending_prompt for a send-prompt
\* request and appended to the history for a capture-only request.
C14_FallbackOnce ==
    [][ FallbackStep
          => /\ nextImg' = nextImg + 1
             /\ IF Head(mainQueue).flag
                THEN /\ pending_prompt # None
                     /\ Dispatched(nextImg, pending_prompt)
                     /\ screenshot_history' = screenshot_history
                ELSE AppendedOnly(nextImg) ]_vars

\* C15: a capture failure never escapes handle_screenshot_in_main_thread as
\* an unhandled exception, also when the selector and the fallback capture
\* both fail.
C15_NoEscapingException == ~crashed

\* A step in which a capture request is handled and no selector is opened:
\* the selector could not start (whatever became of the fallback).
SelectorFailureStep ==
    /\ HeadIs("trigger")
    /\ mainQueue' = Tail(mainQueue)
    /\ selectors' \subseteq selectors

\* C16: once a selector start failure has been handled, pending_prompt is
\* null.
C16_NoPendingLeak == [][ SelectorFailureStep => pending_prompt' = None ]_vars

\* C17: a request whose provider is not registered yields exactly one
\* outcome, a failure, which the main thread renders as an error; the main
\* thread goes on handling the events that follow it.
C17_UnknownProviderFailure ==
    \A r \in Requests :
        workers[r].provider \notin RegisteredProviders
          => /\ workers[r].pc # "run"
                  => /\ workers[r].out = [kind |-> "exc", text |-> UnknownProviderError]
                     /\ workers[r].emitted = 1
             /\ workers[r].consumed <= 1
             /\ workers[r].consumed = 1
                  => /\ workers[r].render = "error" /\ workers[r].errlog
                     /\ (HeadIs("api_response") /\ ~crashed)
                          => ENABLED handle_api_response
                     /\ (HeadIs("cleanup") /\ ~crashed)
                          => ENABLED cleanup_screenshot_history

\* C17 witness: after a request to an unregistered provider was rendered as
\* an error, a later request has been dispatched and answered.
C17_Witness ==
    \E r1, r2 \in Requests :
        /\ r1 < r2
        /\ workers[r1].provider \notin RegisteredProviders
        /\ workers[r1].render = "error" /\ workers[r1].cleaned = 1
        /\ workers[r2].afterFailure /\ workers[r2].consumed = 1

\* C18: the worker of a dispatch is given the provider that the
\* configuration holds at the moment of the dispatch.
C18_ProviderReadAtDispatch ==
    [][ Len(workers') > Len(workers)
          => workers'[Len(workers')].provider = provider ]_vars

\* C18 witness: the provider was switched after start-up and a request
\* dispatched afterwards ran with the new provider.
C18_Witness ==
    \E r \in Requests :
        /\ workers[r].provider = "GPT" /\ provider = "GPT"
        /\ workers[r].pc = "done" /\ workers[r].calls = 1

\* C19 as stated: every request whose worker has run has made exactly one
\* analyze call.
C19_ExactlyOneAnalyzeCall ==
    \A r \in Requests :
        /\ workers[r].calls <= 1
        /\ workers[r].pc # "run" => workers[r].calls = 1

\* C19 amended: no request makes more than one analyze call; a request whose
\* provider is registered makes exactly one, whatever its result, and a
\* request whose provider is not registered makes none.
C19_AtMostOneAnalyzeCall ==
    \A r \in Requests :
        /\ workers[r].calls <= 1
        /\ workers[r].pc = "run" => workers[r].calls = 0
        /\ workers[r].pc # "run"
             => workers[r].calls
                  = (IF workers[r].provider \in RegisteredProviders THEN 1 ELSE 0)

\* C19 witness: a request failed in analyze_images, its failure was consumed
\* and its worker finished having made the one call.
C19_Witness ==
    \E r \in Requests :
        /\ workers[r].out = [kind |-> "exc", text |-> ProviderError]
        /\ workers[r].pc = "done" /\ workers[r].consumed = 1
        /\ workers[r].calls = 1

\* ---- streaming
\* The texts of the non-final chunks among items, in order.
RECURSIVE NonFinalChunks(_)
NonFinalChunks(items) ==
    IF items = <<>> THEN <<>>
    ELSE IF Head(items).kind = "chunk"
         THEN <<Head(items).text>> \o NonFinalChunks(Tail(items))
         ELSE NonFinalChunks(Tail(items))

\* c1 + ... + cn
RECURSIVE Concatenation(_)
Concatenation(texts) ==
    IF texts = <<>> THEN <<>> ELSE Head(texts) \o Concatenation(Tail(texts))

\* C20: the overlay has been sent each non-final chunk that arrived, once and
\* in arrival order; when the completion item arrives the text passed to
\* _process_complete_response, once, is the concatenation of the non-final
\* chunks in arrival order.
C20_StreamingAccumulation ==
    /\ overlay_chunks = NonFinalChunks(arrived)
    /\ Len(completed) <= 1
    /\ (arrived # <<>> /\ arrived[Len(arrived)].kind = "complete")
         <=> completed # <<>>
    /\ completed # <<>>
         => completed[1] = Concatenation(NonFinalChunks(arrived))

\* C20 witness: the chunks "ab", "cd", "ef" and a completion item gave
\* "abcdef".
C20_Witness ==
    /\ Len(arrived) = 4
    /\ overlay_chunks = << <<"a", "b">>, <<"c", "d">>, <<"e", "f">> >>
    /\ completed = << <<"a", "b", "c", "d", "e", "f">> >>
    /\ stream_pc = "done"

\* C21: for a streamed response nothing is extracted or written to the
\* clipboard per chunk; once the completion item has been handled the code
\* blocks of the finalized text have been extracted exactly once, and written
\* to the clipboard once when there are any.
C21_StreamPostProcessedOnce ==
    /\ completed = <<>> => extractions = 0 /\ clipboard = <<>>
    /\ completed # <<>>
         => /\ extractions = 1
            /\ extract_code_blocks(completed[1]) # <<>> => Len(clipboard) = 1

\* ---- consuming an outcome
\* A step in which the main thread handles a delivered response.
HandleStep ==
    /\ HeadIs("api_response")
    /\ mainQueue' = Tail(mainQueue)

SendReadStep ==
    \E t \in cbThreads :
        /\ t.kind = "send" /\ t.pc = "start"
        /\ t \notin cbThreads'
        /\ [t EXCEPT !.pc = "emit"] \in cbThreads'

\* A step in which update_current_prompt_display runs.
DisplayStep ==
    /\ uiThreads' = uiThreads \cup {"main"}
    /\ UNCHANGED << mainQueue, cbThreads, nPress, cfg_index >>

\* C23: after send_current_prompt or update_current_prompt_display has read
\* the (non-empty) prompt list, current_prompt_index is within
\* [0, len(prompts) - 1]: unchanged if it was in range, 0 otherwise; the
\* prompt send_current_prompt hands over is prompts[current_prompt_index].
C23_IndexClamped ==
    [][ (SendReadStep \/ DisplayStep)
          => /\ current_prompt_index' \in 0..(Len(Prompts) - 1)
             /\ current_prompt_index'
                  = (IF current_prompt_index \in 0..(Len(Prompts) - 1)
                     THEN current_prompt_index ELSE 0)
             /\ SendReadStep => pending_prompt' = Prompts[current_prompt_index' + 1]
        ]_vars

\* C23 witness: an out-of-range index was reset by the display and the first
\* prompt was then handed over.
C23_Witness ==
    /\ cfg_index = Len(Prompts)
    /\ current_prompt_index = 0
    /\ pending_prompt = Prompts[1]
    /\ "main" \in uiThreads

\* C24: clear_screenshot_history and _cleanup_screenshot_history leave the
\* history empty, and on an empty history they change nothing and report no
\* clearing.
C24_ClearEmptiesOrNoOp ==
    /\ ClearOutcome(screenshot_history).history = <<>>
    /\ CleanupOutcome(screenshot_history).history = <<>>
    /\ ClearOutcome(<<>>).report # "cleared"
    /\ CleanupOutcome(<<>>).report # "cleared"
    /\ screenshot_history = <<>>
         => /\ ClearOutcome(screenshot_history).history = screenshot_history
            /\ CleanupOutcome(screenshot_history).history = screenshot_history
            /\ appended = <<>>

\* C24 witness: a history that held images has been cleared.
C24_Witness ==
    /\ screenshot_history = <<>>
    /\ "main" \in histThreads

\* ---- callback threads
CallbackAt(kind, pc) == \E t \in cbThreads : t.kind = kind /\ t.pc = pc

\* C25: a callback thread running send_current_prompt or
\* capture_screenshot_only is never made to wait: whatever the main thread,
\* the selectors and the workers are doing, it can take its next step, and
\* it has no step after posting its event.
C25_FireAndForget ==
    /\ \A t \in cbThreads : t.pc \in {"start", "emit", "clear"}
    /\ ~crashed
         => /\ CallbackAt("send", "start") => ENABLED send_current_prompt
            /\ CallbackAt("send", "emit") => ENABLED trigger_prompt_emit
            /\ CallbackAt("only", "start") => ENABLED capture_screenshot_only
            /\ CallbackAt("only", "emit") => ENABLED capture_screenshot_only_emit

\* C25 witness: a callback thread is about to post while the main thread
\* has not yet handled the outcome of a request in flight.
C25_Witness ==
    /\ CallbackAt("send", "emit")
    /\ HeadIs("api_response")
    /\ \E r \in Requests : workers[r].emitted = 1 /\ workers[r].consumed = 0

\* ---- the images of a request
\* C26: the image sequence of a request is the one built at its dispatch and
\* never changes afterwards, whatever is appended to, evicted from or cleared
\* in the history meanwhile.
C26_RequestImagesFrozen ==
    [][ /\ \A r \in Requests : workers'[r].images = workers[r].images
        /\ Len(workers') > Len(workers)
             => workers'[Len(workers')].images = screenshot_history \o <<nextImg>>
      ]_vars

\* C26 witness: an image was appended to the history while a request built
\* from an empty history was in flight, and the request's images are as
\* built.
C26_Witness ==
    \E r \in Requests :
        /\ workers[r].pc = "run"
        /\ workers[r].images = <<1>>
        /\ screenshot_history = <<2>>

\* C28: the images dispatched for a prompt request are the history at
\* dispatch time, in capture order, followed by the new image (at most
\* MAX_SCREENSHOT_HISTORY + 1 images); the dispatch leaves the history as it
\* is and does not add the new image to it.
C28_DispatchImages ==
    [][ Len(workers') > Len(workers)
          => LET imgs == workers'[Len(workers')].images
             IN /\ imgs = screenshot_history \o <<nextImg>>
                /\ Len(imgs) <= MAX_SCREENSHOT_HISTORY + 1
                /\ \A i, j \in 1..Len(imgs) : i < j => imgs[i] < imgs[j]
                /\ screenshot_history' = screenshot_history
                /\ appended' = appended ]_vars

\* C28 witness: a request was dispatched on a history of one image, and
\* the history still holds just that image.
C28_Witness ==
    \E r \in Requests :
        /\ workers[r].images = <<1, 2>>
        /\ workers[r].pc = "run"
        /\ screenshot_history = <<1>> /\ appended = <<1>>
        /\ nextImg = 3

ProviderFailed(out) == out.kind = "exc" \/ out.text = <<>>

\* C29: handling the outcome of a failed provider call renders an error,
\* logs it, extracts no code block and does not write the clipboard;
\* handling the outcome of a successful call runs the code-block extraction
\* and renders the content.
C29_OutcomeHandling ==
    [][ HandleStep
          => LET r == Head(mainQueue).req
             IN IF ProviderFailed(workers[r].out)
                THEN /\ workers'[r].render = "error"
                     /\ workers'[r].errlog
                     /\ extractions' = extractions
                     /\ clipboard' = clipboard
                ELSE /\ workers'[r].render = "html"
                     /\ extractions' = extractions + 1 ]_vars

\* C30: a handled outcome took the error path of handle_api_response if and
\* only if the worker caught an exception or received no text.
C30_ErrorPathIffProviderFailed ==
    \A r \in 1..Len(workers) :
        workers[r].consumed >= 1
            => (workers[r].render = "error" <=> ProviderFailed(workers[r].out))

\* ---- overlapping requests
\* A step in which the selector of a send-prompt request delivers its image
\* (on_screenshot_taken runs).
PromptCaptureStep ==
    /\ InteractiveCapture
    /\ \E s \in Closed : s.kind = "prompt"
    /\ appended' = appended

\* C31: every completed capture of a send-prompt request starts exactly one
\* dispatch, whatever other hotkey callbacks ran in between.
C31_OneDispatchPerCapture ==
    [][ PromptCaptureStep => Len(workers') = Len(workers) + 1 ]_vars

\* A step in which _cleanup_screenshot_history runs.
CleanupStep ==
    /\ HeadIs("cleanup")
    /\ mainQueue' = Tail(mainQueue)

\* The images that have been sent in some dispatched request.
SentImages ==
    UNION { { workers[r].images[i] : i \in 1..Len(workers[r].images) } :
              r \in Requests }

\* C32: the cleanup after a request clears no image of the history that has
\* not been sent in a dispatched request.
C32_CleanupOnlySentImages ==
    [][ CleanupStep
          => \A i \in 1..Len(screenshot_history) :
                \/ screenshot_history[i] \in SentImages
                \/ /\ i <= Len(screenshot_history')
                   /\ screenshot_history'[i] = screenshot_history[i] ]_vars

\* A step in which an open selector emits screenshot_taken or
\* screenshot_cancelled and its slot runs.
SelectorEventStep ==
    /\ Closed # {}
    /\ mainQueue' = mainQueue

\* C33: the selector closed when a capture completes or is cancelled is the
\* one that emitted, no other, and the app holds no selector afterwards;
\* while no selector is open screenshot_selector is null.
C33_NoSelectorLeftOpen ==
    /\ [](selectors = {} => screenshot_selector = 0)
    /\ [][ SelectorEventStep
             => /\ \A s \in Closed : s.id = screenshot_selector
                /\ screenshot_selector' = 0 ]_vars

\* ---- settings
\* A step in which handle_toggle_provider runs.
ToggleStep ==
    /\ HeadIs("toggle_provider")
    /\ mainQueue' = Tail(mainQueue)

\* C36: handle_toggle_provider leaves the configured provider in
\* {Gemini, GPT}; from one of the two it goes to the other one, so two
\* toggles restore it.
C36_ToggleProvider ==
    [][ ToggleStep
          => /\ provider' \in {"Gemini", "GPT"}
             /\ provider = "Gemini" => provider' = "GPT"
             /\ provider = "GPT" => provider' = "Gemini" ]_vars

\* C36 witness: two toggles have been handled and the provider is Gemini
\* again, on the settings page too.
C36_Witness ==
    /\ nPress = 2 /\ mainQueue = <<>>
    /\ provider = "Gemini" /\ form.provider = "Gemini"
    /\ "main" \in uiThreads

\* A step of the settings page (a field edit, a radio click or the save
\* button).
SettingsStep ==
    /\ mainQueue' = mainQueue
    /\ nPress' = nPress

\* C38: when the settings snapshot taken by a settings step fails
\* validation, that step writes no configuration key.
C38_InvalidSnapshotNotSaved ==
    [][ SettingsStep /\ ~validate_basic_settings(read_basic_settings(form'))
          => provider' = provider /\ saved' = saved ]_vars

\* ---- the prompt index
\* C34: after every step that changes the in-memory current_prompt_index or
\* the persisted one, the two are equal.
C34_IndexMatchesConfig ==
    [][ (current_prompt_index' # current_prompt_index \/ cfg_index' # cfg_index)
          => current_prompt_index' = cfg_index' ]_vars

\* C35: switch_prompt(index) with index outside [0, len(prompts) - 1] leaves
\* the in-memory and the persisted index unchanged; with index inside it
\* sets both to index.
C35_SwitchPrompt ==
    [][ last_op'.op = "switch_prompt"
          => IF 0 <= last_op'.index /\ last_op'.index < Len(Prompts)
             THEN /\ current_prompt_index' = last_op'.index
                  /\ cfg_index' = last_op'.index
             ELSE /\ current_prompt_index' = current_prompt_index
                  /\ cfg_index' = cfg_index ]_vars

\* C35 witness: switch_prompt was called with the index just above the
\* range while prompt 2 was selected, and prompt 2 is still selected.
C35_Witness ==
    /\ last_op.op = "switch_prompt" /\ last_op.index = Len(Prompts)
    /\ current_prompt_index = 1 /\ cfg_index = 1

Rejected(op, skip) ==
    \/ Strip(op.name) = "" \/ Strip(op.hotkey) = "" \/ Strip(op.content) = ""
    \/ \E i \in 1..Len(prompts) :
          i - 1 # skip /\ prompts[i].hotkey = Strip(op.hotkey)

\* C40: a rejected add_prompt or update_prompt leaves the stored list
\* unchanged; an accepted add_prompt appends exactly its prompt at the end
\* and changes no other.
C40_RejectedUnchangedAddAppends ==
    [][ /\ last_op'.op = "add" /\ Rejected(last_op', 0 - 1) => prompts' = prompts
        /\ last_op'.op = "update" /\ Rejected(last_op', combo_index)
              => prompts' = prompts
        /\ last_op'.op = "add" /\ ~Rejected(last_op', 0 - 1)
              => /\ Len(prompts') = Len(prompts) + 1
                 /\ SubSeq(prompts', 1, Len(prompts)) = prompts
                 /\ prompts'[Len(prompts')] =
                       [name |-> Strip(last_op'.name),
                        hotkey |-> Strip(last_op'.hotkey),
                        content |-> Strip(last_op'.content)] ]_vars

\* C40 witness: an add_prompt typed with a new hotkey has put its prompt
\* last, behind two others.
C40_Witness ==
    /\ last_op.op = "add" /\ last_op.hotkey = "h3"
    /\ Len(prompts) = 3 /\ prompts[3].hotkey = "h3"
    /\ prompts[3].name = last_op.name

====
